---- MODULE Spec2Model ----
(***************************************************************************)
(* Multi-armed-bandit strategies (EpsilonGreedy, AnnealingEpsilonGreedy,   *)
(* Softmax, AnnealingSoftmax, UCB) and the Monte Carlo harness             *)
(* test_algorithm, as a state machine.                                     *)
(*                                                                         *)
(* Numbers.  Play counts are integers.  Value estimates, rewards,          *)
(* epsilon, temperature and the uniform draw z are exact rationals <<n,d>> *)
(* (d > 0, lowest terms); float rounding is not modelled.  np.log and      *)
(* np.sqrt are tabulated / computed in thousandths.  np.exp is modelled    *)
(* only by its sign (strictly positive).                                   *)
(*                                                                         *)
(* Arrays are functions over 0..K-1, as numpy indexes them.                *)
(***************************************************************************)
EXTENDS Integers, Sequences, FiniteSets

\* ------------------------------------------------------------------ bounds
MaxArms == 2
MaxUpdates == 3
MaxSims == 2
MaxHorizon == 3
MaxSteps == 4

\* -------------------------------------------------------------- rationals
Abs(x) == IF x < 0 THEN -x ELSE x

RECURSIVE GCD(_, _)
GCD(a, b) == IF b = 0 THEN a ELSE GCD(b, a % b)

\* n/d in lowest terms, d > 0
Frac(n, d) == LET g == GCD(Abs(n), d) IN <<n \div g, d \div g>>

\* float nan (np.mean of an empty axis)
NaN == <<0, 0>>
\* an attribute the class never sets (Annealing* have no epsilon/temperature)
NoAttr == <<-1, 0>>

Zero == <<0, 1>>
IsNum(a) == a[2] > 0
RAdd(a, b) == IF IsNum(a) /\ IsNum(b) THEN Frac(a[1] * b[2] + b[1] * a[2], a[2] * b[2]) ELSE NaN
RMul(a, b) == IF IsNum(a) /\ IsNum(b) THEN Frac(a[1] * b[1], a[2] * b[2]) ELSE NaN
\* a / b for b > 0
RDiv(a, b) == IF IsNum(a) /\ IsNum(b) THEN Frac(a[1] * b[2], a[2] * b[1]) ELSE NaN
RGt(a, b) == a[1] * b[2] > b[1] * a[2]

\* ------------------------------------------------------------------ numpy
\* the attribute value None (counts and values before the first initialize)
None == [i \in {-1} |-> <<-1, 0>>]

\* np.zeros(n, dtype=int): ValueError on a negative dimension
zeros_int(n) == [i \in 0..(n - 1) |-> 0]
zeros_float(n) == [i \in 0..(n - 1) |-> Zero]

len(a) == Cardinality(DOMAIN a)

\* np.sum over an int array
RECURSIVE SumTo(_, _)
SumTo(a, k) == IF k < 0 THEN 0 ELSE a[k] + SumTo(a, k - 1)
np_sum(a) == SumTo(a, len(a) - 1)

\* np.argmax over a float array: the first index of the maximum; ValueError
\* ("attempt to get argmax of an empty sequence") on an empty array
np_argmax(a) ==
    IF DOMAIN a = {}
    THEN [raised |-> "ValueError", v |-> -1]
    ELSE [raised |-> "",
          v |-> CHOOSE i \in DOMAIN a :
                    /\ \A j \in DOMAIN a : ~RGt(a[j], a[i])
                    /\ \A j \in DOMAIN a : j < i => RGt(a[i], a[j])]

\* np.log(n) for an integer n >= 1, in thousandths
LnMilli(n) ==
    CASE n = 1 -> 0
      [] n = 2 -> 693
      [] n = 3 -> 1099
      [] n = 4 -> 1386
      [] n = 5 -> 1609
      [] n = 6 -> 1792
      [] n = 7 -> 1946
      [] n = 8 -> 2079
      [] n = 9 -> 2197
      [] OTHER -> 2303

\* np.sqrt of x / 10^6 in thousandths (floor)
ISqrt(x) == CHOOSE r \in 0..2200 : r * r <= x /\ x < (r + 1) * (r + 1)

\* np.random.random(): samples of [0, 1)
ZDraws == {<<0, 1>>, <<1, 2>>, <<19, 20>>}

\* mutant: the upper end included, as random.randint does
randint_inclusive(low, high) ==
    IF low >= high
    THEN {[raised |-> "ValueError", v |-> -1]}
    ELSE {[raised |-> "", v |-> k] : k \in low..high}

\* np.random.randint(low, high): every outcome; ValueError when low >= high
randint(low, high) ==
    IF low >= high
    THEN {[raised |-> "ValueError", v |-> -1]}
    ELSE {[raised |-> "", v |-> k] : k \in low..(high - 1)}

\* BernoulliArm.draw: 0.0 or 1.0
Rewards == {<<0, 1>>, <<1, 1>>}

\* the rewards a client passes to update: any number
UpdateRewards == Rewards \cup {<<-3, 2>>}

\* ------------------------------------------------------------- strategies
\* The outcome of one select_arm call: the exception raised ("" for none),
\* the arm returned, the instance after the call, and a record of the path
\* taken (branch, the uniform draw z, the counts the UCB bonus divided by).
Outcome(self, o, branch, z, divisors) ==
    [raised |-> o.raised, ret |-> o.v, self |-> self,
     branch |-> branch, z |-> z, divisors |-> divisors]

\* mutant: values of the right length are kept, only counts are zeroed
initialize_keeps_values(self, n_arms) ==
    IF n_arms < 0
    THEN [raised |-> "ValueError", self |-> self]
    ELSE [raised |-> "",
          self |-> [self EXCEPT !.counts = zeros_int(n_arms),
                                !.values = IF DOMAIN self.values = 0..(n_arms - 1)
                                           THEN self.values
                                           ELSE zeros_float(n_arms)]]

\* initialize of EpsilonGreedy, Softmax and UCB (the same two lines in each)
initialize(self, n_arms) ==
    IF n_arms < 0
    THEN [raised |-> "ValueError", self |-> self]
    ELSE [raised |-> "",
          self |-> [self EXCEPT !.counts = zeros_int(n_arms),
                                !.values = zeros_float(n_arms)]]

\* mutant: counts[chosen_arm] = 1 for counts[chosen_arm] += 1
update_assigns_count(self, chosen_arm, reward) ==
    IF chosen_arm \notin DOMAIN self.counts
    THEN [raised |-> "IndexError", self |-> self]
    ELSE LET n == 1
             value == self.values[chosen_arm]
             new_value == RAdd(RMul(value, Frac(n - 1, n)), RDiv(reward, <<n, 1>>))
         IN  [raised |-> "",
              self |-> [self EXCEPT !.counts[chosen_arm] = n,
                                    !.values[chosen_arm] = new_value]]

\* mutant: the new reward is added whole, not divided by n
update_adds_reward_undivided(self, chosen_arm, reward) ==
    IF chosen_arm \notin DOMAIN self.counts
    THEN [raised |-> "IndexError", self |-> self]
    ELSE LET n == self.counts[chosen_arm] + 1
             value == self.values[chosen_arm]
             new_value == RAdd(RMul(value, Frac(n - 1, n)), reward)
         IN  [raised |-> "",
              self |-> [self EXCEPT !.counts[chosen_arm] = n,
                                    !.values[chosen_arm] = new_value]]

\* update of EpsilonGreedy, Softmax and UCB (the same five lines in each)
update(self, chosen_arm, reward) ==
    IF chosen_arm \notin DOMAIN self.counts
    THEN [raised |-> "IndexError", self |-> self]
    ELSE LET n == self.counts[chosen_arm] + 1
             value == self.values[chosen_arm]
             new_value == RAdd(RMul(value, Frac(n - 1, n)), RDiv(reward, <<n, 1>>))
         IN  [raised |-> "",
              self |-> [self EXCEPT !.counts[chosen_arm] = n,
                                    !.values[chosen_arm] = new_value]]

\* the body shared by EpsilonGreedy.select_arm and
\* AnnealingEpsilonGreedy.select_arm once epsilon is known
greedy_or_random(self, epsilon) ==
    UNION {IF RGt(z, epsilon)
           THEN {Outcome(self, np_argmax(self.values), "greedy", z, {})}
           ELSE {Outcome(self, o, "random", z, {}) : o \in randint(0, len(self.values))}
           : z \in ZDraws}

EpsilonGreedy_select_arm(self) == greedy_or_random(self, self.epsilon)

\* np.log(t + 0.0000001) for t >= 1: 1e-7 at t = 1, ln(t) in thousandths above
anneal_log(t) == IF t = 1 THEN <<1, 10000000>> ELSE <<LnMilli(t), 1000>>

\* 1 / np.log(t + 0.0000001)
anneal(t) == RDiv(<<1, 1>>, anneal_log(t))

AnnealingEpsilonGreedy_select_arm(self) ==
    LET t == np_sum(self.counts) + 1
        epsilon == anneal(t)
    IN  greedy_or_random(self, epsilon)

\* np.exp(z) / np.sum(np.exp(z)), by the arms it gives a non-zero
\* probability: np.exp is strictly positive on every finite z
softmax_probs(z) == {i \in DOMAIN z : IsNum(z[i])}

\* Softmax.categorical_draw: np.random.multinomial(1, probs, 1) is a one-hot
\* row at an arm of non-zero probability, np.argmax finds it
categorical_draw(self, probs, n_arms) ==
    IF probs = {}
    THEN {Outcome(self, [raised |-> "ValueError", v |-> -1], "draw", Zero, {})}
    ELSE {LET preds == [i \in 0..(n_arms - 1) |-> IF i = k THEN <<1, 1>> ELSE Zero]
          IN  Outcome(self, np_argmax(preds), "draw", Zero, {}) : k \in probs}

Softmax_select_arm(self) ==
    LET z == [i \in DOMAIN self.values |-> RDiv(self.values[i], self.temperature)]
    IN  categorical_draw(self, softmax_probs(z), len(self.values))

\* mutant: the annealed temperature is stored on the instance
AnnealingSoftmax_select_arm_stores_temperature(self) ==
    LET t == np_sum(self.counts) + 1
        temperature == anneal(t)
        z == [i \in DOMAIN self.values |-> RDiv(self.values[i], temperature)]
    IN  categorical_draw([self EXCEPT !.temperature = temperature],
                         softmax_probs(z), len(self.values))

AnnealingSoftmax_select_arm(self) ==
    LET t == np_sum(self.counts) + 1
        temperature == anneal(t)
        z == [i \in DOMAIN self.values |-> RDiv(self.values[i], temperature)]
    IN  categorical_draw(self, softmax_probs(z), len(self.values))

\* np.sqrt((2 * np.log(n)) / c): numpy divides by zero to inf/nan with a
\* warning, no exception
ucb_bonus(n, c) ==
    IF c = 0 THEN NaN ELSE <<ISqrt((2 * LnMilli(n) * 1000) \div c), 1000>>

\* mutant: the unvisited arms are scanned from the highest index down
UCB_select_arm_scans_downwards(self) ==
    LET n_arms == len(self.counts)
        unvisited == {arm \in 0..(n_arms - 1) : self.counts[arm] = 0}
    IN  IF unvisited # {}
        THEN {Outcome(self,
                      [raised |-> "",
                       v |-> CHOOSE arm \in unvisited : \A b \in unvisited : arm >= b],
                      "visit", Zero, {})}
        ELSE LET n == np_sum(self.counts)
                 ucb_values == [arm \in 0..(n_arms - 1) |->
                                   RAdd(self.values[arm], ucb_bonus(n, self.counts[arm]))]
             IN  {Outcome(self, np_argmax(ucb_values), "ucb", Zero,
                          {self.counts[arm] : arm \in 0..(n_arms - 1)})}

\* mutant: no scan for unvisited arms before the bonus is computed
UCB_select_arm_without_scan(self) ==
    LET n_arms == len(self.counts)
        n == np_sum(self.counts)
        ucb_values == [arm \in 0..(n_arms - 1) |->
                          RAdd(self.values[arm], ucb_bonus(n, self.counts[arm]))]
    IN  {Outcome(self, np_argmax(ucb_values), "ucb", Zero,
                 {self.counts[arm] : arm \in 0..(n_arms - 1)})}

UCB_select_arm(self) ==
    LET n_arms == len(self.counts)
        unvisited == {arm \in 0..(n_arms - 1) : self.counts[arm] = 0}
    IN  IF unvisited # {}
        THEN {Outcome(self,
                      [raised |-> "",
                       v |-> CHOOSE arm \in unvisited : \A b \in unvisited : arm <= b],
                      "visit", Zero, {})}
        ELSE LET n == np_sum(self.counts)
                 ucb_values == [arm \in 0..(n_arms - 1) |->
                                   RAdd(self.values[arm], ucb_bonus(n, self.counts[arm]))]
             IN  {Outcome(self, np_argmax(ucb_values), "ucb", Zero,
                          {self.counts[arm] : arm \in 0..(n_arms - 1)})}

\* dispatch on the class of the instance
select_arm(cls, self) ==
    CASE cls = "EpsilonGreedy" -> EpsilonGreedy_select_arm(self)
      [] cls = "AnnealingEpsilonGreedy" -> AnnealingEpsilonGreedy_select_arm(self)
      [] cls = "Softmax" -> Softmax_select_arm(self)
      [] cls = "AnnealingSoftmax" -> AnnealingSoftmax_select_arm(self)
      [] cls = "UCB" -> UCB_select_arm(self)

\* ---------------------------------------------------------------- harness
\* np.mean(rewards, axis=0) of a rows x cols table: nan per column (with a
\* RuntimeWarning, no exception) when there is no row
RECURSIVE ColumnSum(_, _, _)
ColumnSum(a, row, col) ==
    IF row < 0 THEN Zero ELSE RAdd(a[row][col], ColumnSum(a, row - 1, col))

np_mean_axis0(a, rows, cols) ==
    [col \in 0..(cols - 1) |->
        IF rows = 0 THEN NaN ELSE RDiv(ColumnSum(a, rows - 1, col), <<rows, 1>>)]

\* mutant: each entry added to its left neighbour only, not to the running sum
np_cumsum_pairwise(a) ==
    [i \in DOMAIN a |-> IF i = 0 THEN a[0] ELSE RAdd(a[i - 1], a[i])]

\* np.cumsum: the running sum, left to right
np_cumsum(a) ==
    LET c[i \in DOMAIN a] == IF i = 0 THEN a[0] ELSE RAdd(c[i - 1], a[i])
    IN  c

\* np.zeros((num_simulations, horizon))
zeros_2d(rows, cols, zero) == [row \in 0..(rows - 1) |-> [col \in 0..(cols - 1) |-> zero]]

\* ------------------------------------------------------------------ state
VARIABLES
    cls,                 \* the class of the strategy instance
    epsilon,             \* self.epsilon (EpsilonGreedy), else NoAttr
    temperature,         \* self.temperature (Softmax), else NoAttr
    counts,              \* self.counts
    values,              \* self.values
    pc,                  \* "client": between API calls; else the harness's position
    last_call,           \* the API call made last and how it ended
    log,                 \* the (arm, reward) of every update since the last initialize
    num_simulations,     \* test_algorithm's arguments
    horizon,
    n_arms,              \* len(arms)
    sim,                 \* test_algorithm's locals
    t,
    chosen_arm,
    chosen_arms,
    rewards,
    average_rewards,
    cumulative_rewards

instance == <<cls, epsilon, temperature, counts, values>>
harness == <<num_simulations, horizon, n_arms, sim, t, chosen_arm, chosen_arms, rewards,
             average_rewards, cumulative_rewards>>
vars == <<instance, pc, last_call, log, harness>>

Self == [counts |-> counts, values |-> values, epsilon |-> epsilon, temperature |-> temperature]

SetSelf(self) ==
    /\ counts' = self.counts
    /\ values' = self.values
    /\ epsilon' = self.epsilon
    /\ temperature' = self.temperature

Call(op, raised) ==
    [op |-> op, raised |-> raised, ret |-> -1, branch |-> "", z |-> Zero, divisors |-> {}]

Selected(res) ==
    [op |-> "select_arm", raised |-> res.raised, ret |-> res.ret, branch |-> res.branch,
     z |-> res.z, divisors |-> res.divisors]

\* the instances constructed: EpsilonGreedy(epsilon), AnnealingEpsilonGreedy(),
\* Softmax(temperature), AnnealingSoftmax(), UCB(); counts = values = None
Constructed ==
    {[cls |-> "EpsilonGreedy", epsilon |-> e, temperature |-> NoAttr,
      counts |-> None, values |-> None] : e \in {<<0, 1>>, <<1, 2>>}}
    \cup {[cls |-> "Softmax", epsilon |-> NoAttr, temperature |-> <<1, 2>>,
           counts |-> None, values |-> None]}
    \cup {[cls |-> c, epsilon |-> NoAttr, temperature |-> NoAttr,
           counts |-> None, values |-> None]
          : c \in {"AnnealingEpsilonGreedy", "AnnealingSoftmax", "UCB"}}

\* an instance used before: initialize(2), update(1, 1.0)
UsedBefore(o) ==
    LET s0 == [counts |-> o.counts, values |-> o.values,
               epsilon |-> o.epsilon, temperature |-> o.temperature]
        s1 == update(initialize(s0, 2).self, 1, <<1, 1>>).self
    IN  [o EXCEPT !.counts = s1.counts, !.values = s1.values]

InitLocals ==
    /\ sim = 0
    /\ t = 0
    /\ chosen_arm = 0
    /\ chosen_arms = <<>>
    /\ rewards = <<>>
    /\ average_rewards = <<>>
    /\ cumulative_rewards = <<>>
    /\ last_call = Call("__init__", "")

\* a client that calls initialize / select_arm / update itself
InitClient ==
    /\ \E o \in Constructed :
          /\ cls = o.cls /\ epsilon = o.epsilon /\ temperature = o.temperature
          /\ counts = o.counts /\ values = o.values
    /\ log = <<>>
    /\ pc = "client"
    /\ num_simulations = 0 /\ horizon = 0 /\ n_arms = 0
    /\ InitLocals

\* a call test_algorithm(algo, arms, num_simulations, horizon), with algo
\* fresh from its constructor or used before
InitHarness ==
    /\ \E o \in Constructed :
          \/ /\ cls = o.cls /\ epsilon = o.epsilon /\ temperature = o.temperature
             /\ counts = o.counts /\ values = o.values
             /\ log = <<>>
          \/ /\ cls = o.cls /\ epsilon = o.epsilon /\ temperature = o.temperature
             /\ counts = UsedBefore(o).counts /\ values = UsedBefore(o).values
             /\ log = <<[arm |-> 1, reward |-> <<1, 1>>]>>
    /\ pc = "call"
    /\ num_simulations \in -1..MaxSims
    /\ horizon \in -1..MaxHorizon
    /\ num_simulations * horizon <= MaxSteps
    /\ n_arms \in 0..MaxArms
    /\ InitLocals

Init == InitClient \/ InitHarness

\* ------------------------------------------------------------ client calls
ClientInitialize(k) ==
    /\ pc = "client"
    /\ LET res == initialize(Self, k)
       IN  /\ SetSelf(res.self)
           /\ log' = IF res.raised = "" THEN <<>> ELSE log
           /\ last_call' = Call("initialize", res.raised)
    /\ UNCHANGED <<cls, pc, harness>>

ClientSelectArm ==
    /\ pc = "client"
    /\ counts # None
    /\ \E res \in select_arm(cls, Self) :
          /\ SetSelf(res.self)
          /\ last_call' = Selected(res)
    /\ UNCHANGED <<cls, pc, log, harness>>

ClientUpdate(arm, reward) ==
    /\ pc = "client"
    /\ counts # None
    /\ arm \in DOMAIN counts
    /\ Len(log) < MaxUpdates
    /\ LET res == update(Self, arm, reward)
       IN  /\ SetSelf(res.self)
           /\ log' = Append(log, [arm |-> arm, reward |-> reward])
           /\ last_call' = Call("update", res.raised)
    /\ UNCHANGED <<cls, pc, harness>>

\* --------------------------------------------------------- test_algorithm
\* lines 57-58: np.zeros raises ValueError on a negative dimension
HarnessAllocate ==
    /\ pc = "call"
    /\ IF num_simulations < 0 \/ horizon < 0
       THEN /\ pc' = "raised"
            /\ last_call' = Call("np.zeros", "ValueError")
            /\ UNCHANGED <<chosen_arms, rewards>>
       ELSE /\ pc' = "for_sim"
            /\ chosen_arms' = zeros_2d(num_simulations, horizon, 0)
            /\ rewards' = zeros_2d(num_simulations, horizon, Zero)
            /\ UNCHANGED last_call
    /\ sim' = 0
    /\ UNCHANGED <<instance, log, num_simulations, horizon, n_arms, t, chosen_arm,
                   average_rewards, cumulative_rewards>>

\* lines 61-63: the next simulation starts
HarnessSimBegin ==
    /\ pc = "for_sim"
    /\ sim < num_simulations
    /\ LET res == initialize(Self, n_arms)
       IN  /\ SetSelf(res.self)
           /\ log' = <<>>
           /\ last_call' = Call("initialize", res.raised)
    /\ t' = 0
    /\ pc' = "for_t"
    /\ UNCHANGED <<cls, num_simulations, horizon, n_arms, sim, chosen_arm, chosen_arms,
                   rewards, average_rewards, cumulative_rewards>>

\* lines 66-69: select_arm at time step t
HarnessSelect ==
    /\ pc = "for_t"
    /\ t < horizon
    /\ \E res \in select_arm(cls, Self) :
          /\ SetSelf(res.self)
          /\ last_call' = Selected(res)
          /\ IF res.raised = ""
             THEN /\ chosen_arm' = res.ret
                  /\ chosen_arms' = [chosen_arms EXCEPT ![sim][t] = res.ret]
                  /\ pc' = "draw"
             ELSE /\ pc' = "raised"
                  /\ UNCHANGED <<chosen_arm, chosen_arms>>
    /\ UNCHANGED <<cls, log, num_simulations, horizon, n_arms, sim, t, rewards,
                   average_rewards, cumulative_rewards>>

\* lines 72-76: draw the reward, record it, update the strategy
HarnessDrawUpdate ==
    /\ pc = "draw"
    /\ IF chosen_arm \notin 0..(n_arms - 1)
       THEN /\ pc' = "raised"
            /\ last_call' = Call("arms[chosen_arm]", "IndexError")
            /\ UNCHANGED <<instance, log, rewards, t>>
       ELSE \E reward \in Rewards :
               LET res == update(Self, chosen_arm, reward)
               IN  /\ rewards' = [rewards EXCEPT ![sim][t] = reward]
                   /\ SetSelf(res.self)
                   /\ last_call' = Call("update", res.raised)
                   /\ IF res.raised = ""
                      THEN /\ log' = Append(log, [arm |-> chosen_arm, reward |-> reward])
                           /\ t' = t + 1
                           /\ pc' = "for_t"
                      ELSE /\ pc' = "raised"
                           /\ UNCHANGED <<log, t>>
                   /\ UNCHANGED cls
    /\ UNCHANGED <<num_simulations, horizon, n_arms, sim, chosen_arm, chosen_arms,
                   average_rewards, cumulative_rewards>>

\* line 66 exhausted: on to the next simulation
HarnessSimEnd ==
    /\ pc = "for_t"
    /\ t >= horizon
    /\ sim' = sim + 1
    /\ pc' = "for_sim"
    /\ UNCHANGED <<instance, last_call, log, num_simulations, horizon, n_arms, t, chosen_arm,
                   chosen_arms, rewards, average_rewards, cumulative_rewards>>

\* lines 78-82: aggregate and return
HarnessReturn ==
    /\ pc = "for_sim"
    /\ sim >= num_simulations
    /\ average_rewards' = np_mean_axis0(rewards, num_simulations, horizon)
    /\ cumulative_rewards' = np_cumsum(np_mean_axis0(rewards, num_simulations, horizon))
    /\ pc' = "returned"
    /\ UNCHANGED <<instance, last_call, log, num_simulations, horizon, n_arms, sim, t,
                   chosen_arm, chosen_arms, rewards>>

Next ==
    \/ \E k \in -1..MaxArms : ClientInitialize(k)
    \/ ClientSelectArm
    \/ \E arm \in 0..(MaxArms - 1), reward \in UpdateRewards : ClientUpdate(arm, reward)
    \/ HarnessAllocate
    \/ HarnessSimBegin
    \/ HarnessSelect
    \/ HarnessDrawUpdate
    \/ HarnessSimEnd
    \/ HarnessReturn

Spec == Init /\ [][Next]_vars

\* ================================================================= claims
\* the (simulation, step) cells of chosen_arms the harness has written
Recorded(s, u) ==
    /\ s \in DOMAIN chosen_arms
    /\ u \in 0..(horizon - 1)
    /\ \/ s < sim
       \/ s = sim /\ pc \in {"for_t", "draw", "raised"} /\ u < t
       \/ s = sim /\ pc = "draw" /\ u = t

\* the sum of the rewards the first k entries of the log hold for arm i
RECURSIVE LogRewardSum(_, _)
LogRewardSum(i, k) ==
    IF k = 0 THEN Zero
    ELSE IF log[k].arm = i THEN RAdd(log[k].reward, LogRewardSum(i, k - 1))
    ELSE LogRewardSum(i, k - 1)

LogPlays(i) == Cardinality({k \in 1..Len(log) : log[k].arm = i})

\* the steps before step u of simulation s that chose arm i, and their rewards
RowPlays(s, i, u) == {v \in 0..(u - 1) : chosen_arms[s][v] = i}

RECURSIVE RowRewardSum(_, _, _)
RowRewardSum(s, i, u) ==
    IF u = 0 THEN Zero
    ELSE IF chosen_arms[s][u - 1] = i
         THEN RAdd(rewards[s][u - 1], RowRewardSum(s, i, u - 1))
    ELSE RowRewardSum(s, i, u - 1)

\* C1: sum(counts) is the number of update calls since the last initialize,
\* and when the harness calls select_arm at time step t, sum(counts) = t.
C1_CountsSumIsUpdateCalls ==
    /\ counts # None => np_sum(counts) = Len(log)
    /\ pc \in {"for_t", "draw"} => np_sum(counts) = t

C1_Witness ==
    /\ pc = "for_t" /\ sim >= 1 /\ t >= 1 /\ t < horizon
    /\ cls = "AnnealingEpsilonGreedy"

\* C2: values[i] is the arithmetic mean of exactly the counts[i] rewards passed
\* to update for arm i since the last initialize, and 0 when counts[i] = 0.
C2_ValuesAreMeans ==
    counts # None =>
        \A i \in DOMAIN counts :
            /\ counts[i] = LogPlays(i)
            /\ counts[i] = 0 => values[i] = Zero
            /\ counts[i] > 0 =>
                  values[i] = RDiv(LogRewardSum(i, Len(log)), <<counts[i], 1>>)

C2_Witness ==
    /\ pc = "client"
    /\ counts # None
    /\ \E i \in DOMAIN counts : counts[i] = 3 /\ values[i] = <<-1, 6>>

\* C3: UCB in the harness (every select_arm followed by update of the arm it
\* returned): the first K steps of every simulation choose arms 0, 1, ..., K-1
\* in that order, whatever the rewards.
C3_UCBVisitsEveryArmInOrder ==
    cls = "UCB" =>
        \A s \in DOMAIN chosen_arms : \A u \in 0..(horizon - 1) :
            Recorded(s, u) /\ u < n_arms => chosen_arms[s][u] = u

C3_Witness ==
    /\ cls = "UCB" /\ pc = "for_t"
    /\ n_arms >= 2 /\ t >= n_arms
    /\ rewards[sim][0] = <<1, 1>> /\ rewards[sim][1] = Zero

\* C4: every simulation starts from a reset strategy: whenever the harness is
\* about to select at step t, counts and values hold the plays and the mean
\* rewards of steps 0..t-1 of this simulation only; when it returns (after at
\* least one simulation), sum(counts) = horizon and counts[i] is the number of
\* steps of the last row of chosen_arms that hold arm i.
C4_HarnessResetsEveryRun ==
    /\ pc = "for_t" =>
          /\ DOMAIN counts = 0..(n_arms - 1)
          /\ DOMAIN values = 0..(n_arms - 1)
          /\ \A i \in 0..(n_arms - 1) :
                /\ counts[i] = Cardinality(RowPlays(sim, i, t))
                /\ values[i] = IF counts[i] = 0 THEN Zero
                               ELSE RDiv(RowRewardSum(sim, i, t), <<counts[i], 1>>)
    /\ pc = "returned" /\ num_simulations >= 1 =>
          /\ np_sum(counts) = horizon
          /\ \A i \in 0..(n_arms - 1) :
                counts[i] = Cardinality(RowPlays(num_simulations - 1, i, horizon))

C4_Witness ==
    /\ pc = "returned"
    /\ num_simulations >= 2 /\ horizon >= 2 /\ n_arms >= 2
    /\ chosen_arms[0] # chosen_arms[1]
    /\ rewards[0] # rewards[1]

\* C5: EpsilonGreedy with epsilon = 0: for every uniform draw z in [0, 1),
\* select_arm returns the first index of the maximum value estimate (so it
\* never returns the random branch's arm).
C5_EpsilonZeroIsGreedy ==
    /\ cls = "EpsilonGreedy" /\ epsilon = Zero
    /\ last_call.op = "select_arm" /\ last_call.raised = ""
    => last_call.ret = np_argmax(values).v

C7_PreconditionViolationsFailFast ==
    pc = "returned" => horizon >= 1 /\ num_simulations >= 1 /\ n_arms >= 1

\* C8: whenever UCB.select_arm evaluates the bonus sqrt(2 ln(n) / counts[arm]),
\* every count it divides by is >= 1 and the total n is >= 1.
C8_UCBNeverDividesByZero ==
    cls = "UCB" /\ last_call.op = "select_arm" =>
        /\ 0 \notin last_call.divisors
        /\ last_call.divisors # {} => np_sum(counts) >= 1

C8_Witness ==
    /\ cls = "UCB" /\ last_call.op = "select_arm"
    /\ last_call.branch = "ucb" /\ last_call.raised = ""
    /\ len(counts) >= 2
    /\ last_call.ret = 1

\* C9: when the harness returns (after at least one simulation),
\* average_rewards[t] is the mean over the simulations of the reward recorded
\* at step t, and cumulative_rewards[t] is the sum of average_rewards[0..t].
RECURSIVE SumFrom(_, _, _)
SumFrom(a, lo, hi) == IF lo > hi THEN Zero ELSE RAdd(a[lo], SumFrom(a, lo + 1, hi))

C9_AverageAndCumulativeRewards ==
    pc = "returned" /\ num_simulations >= 1 =>
        /\ DOMAIN average_rewards = 0..(horizon - 1)
        /\ DOMAIN cumulative_rewards = 0..(horizon - 1)
        /\ \A u \in 0..(horizon - 1) :
              /\ RMul(average_rewards[u], <<num_simulations, 1>>)
                     = SumFrom([s \in 0..(num_simulations - 1) |-> rewards[s][u]],
                               0, num_simulations - 1)
              /\ cumulative_rewards[u] = SumFrom(average_rewards, 0, u)

C9_Witness ==
    /\ pc = "returned" /\ num_simulations >= 2 /\ horizon >= 2
    /\ average_rewards[0] = <<1, 2>>
    /\ cumulative_rewards[horizon - 1] = <<3, 2>>

\* C10: with K >= 1 arms, every arm select_arm returns is in [0, K): every
\* recorded entry of chosen_arms is in [0, K) and the harness never indexes
\* arms, counts or values out of range.
C10_SelectedArmInRange ==
    /\ last_call.op = "select_arm" /\ last_call.raised = "" =>
          last_call.ret \in 0..(len(counts) - 1)
    /\ \A s \in DOMAIN chosen_arms : \A u \in 0..(horizon - 1) :
          Recorded(s, u) => chosen_arms[s][u] \in 0..(n_arms - 1)
    /\ last_call.raised # "IndexError"

C10_Witness ==
    /\ pc = "returned" /\ cls = "EpsilonGreedy"
    /\ n_arms >= 2 /\ num_simulations >= 1 /\ horizon >= 3
    /\ chosen_arms[0][0] = n_arms - 1
    /\ chosen_arms[0][2] = 0

====
